---- MODULE Spec2Model ----
(***************************************************************************)
(* A model of modules/notifiy.py: the notification table (pkey | nick |    *)
(* service | parameter), the three admin commands that edit and print it,  *)
(* and nick_detect, which scans every message for the registered nicks and *)
(* calls the notification function of each matching row.                   *)
(***************************************************************************)
EXTENDS Integers, Sequences, FiniteSets, TLC

VARIABLES
    table,              \* the rows of the notification table, in rowid (= pkey) order
    pushover_imported,  \* "import pushover" succeeded: the name pushover is bound
    PUSHOVER,           \* the module flag, after setup
    SMTP,               \* the module's SMTP session, after setup
    out,                \* what the last handler did: replies, deliveries, error
    assigned,           \* every pkey get_new_pkey has handed to an insert so far
    pc,                 \* per concurrent add request: "idle" or "insert"
    pending,            \* per concurrent add request: the row it is about to insert
    txn                 \* the open transaction of a command that runs step by step

vars == <<table, pushover_imported, PUSHOVER, SMTP, out, assigned, pc, pending, txn>>

-----------------------------------------------------------------------------
(* Bounds of the model *)

\* the most rows the table holds
MaxRows == 2
\* the largest pkey get_new_pkey hands out
MaxId == 2
\* the longest message
MaxMsgLen == 2

-----------------------------------------------------------------------------
(* Inputs *)

Chars == {"a", "A", "b"}

Nicks == {<<"A", "b">>, <<"b">>}

ServiceNames == {"pushover", "email", "sms"}

\* the (nick, service, parameter) arguments of the add and remove commands
Subscriptions ==
    (Nicks \X ServiceNames \X {"tok1"}) \cup {<<<<"b">>, "email", "tok2">>}

Senders == {<<"#", "c">>, <<"n">>}

Messages == UNION {[1..k -> Chars] : k \in 0..MaxMsgLen}

\* the commands as they arrive: from an admin in a private message with every
\* argument triple, and from every kind of sender with one of them
Triggers ==
    [sender : {<<"n">>}, admin : {TRUE}, args : Subscriptions]
    \cup [sender : Senders, admin : BOOLEAN, args : {<<<<"b">>, "email", "tok1">>}]

Procs == {"p1", "p2"}

ConcTriggers ==
    [sender : {<<"n">>}, admin : {TRUE},
     args : {<<"b">>} \X {"email", "sms"} \X {"tok1"}]
    \cup [sender : Senders, admin : {TRUE}, args : {<<<<"b">>, "email", "tok1">>}]

-----------------------------------------------------------------------------
(* Strings *)

\* str.lower(), one character
LowerChar(c) ==
    CASE c = "A" -> "a"
      [] OTHER -> c

\* str.lower()
Lower(s) == [i \in 1..Len(s) |-> LowerChar(s[i])]

\* needle in hay
Contains(hay, needle) ==
    \E i \in 0..(Len(hay) - Len(needle)) :
        SubSeq(hay, i + 1, i + Len(needle)) = needle

\* the sender test left out: a request from a channel is let through
StartsWithHash_never(s) == FALSE

\* sender.startswith('#')
StartsWithHash(s) == Len(s) > 0 /\ s[1] = "#"

\* the test of nick_detect: nick.lower() in message.lower()
Matches(nick, message) == Contains(Lower(message), Lower(nick))

-----------------------------------------------------------------------------
(* The table *)

Row(pkey, nick, service, parameter) ==
    [pkey |-> pkey, nick |-> nick, service |-> service, parameter |-> parameter]

SetMax(S) == CHOOSE m \in S : \A x \in S : x <= m

Pkeys(t) == {t[i].pkey : i \in 1..Len(t)}

\* get_new_pkey without the "+1"
get_new_pkey_no_increment(t) ==
    IF Pkeys(t) = {} THEN 1 ELSE SetMax(Pkeys(t))

\* get_new_pkey counting the rows instead of taking the largest pkey
get_new_pkey_by_count(t) == Len(t) + 1

\* get_new_pkey taking the smallest pkey that no row has
get_new_pkey_first_free(t) ==
    CHOOSE n \in 1..(Len(t) + 1) :
        n \notin Pkeys(t) /\ \A m \in 1..(n - 1) : m \in Pkeys(t)

get_new_pkey(t) ==
    IF Pkeys(t) = {} THEN 1 ELSE SetMax(Pkeys(t)) + 1

\* the insert on a table that was created without PRIMARY KEY (pkey)
add_new_notify_no_primary_key(t, pkey, nick, service, parameter) ==
    [table |-> SelectSeq(t, LAMBDA r : r.pkey <= pkey)
               \o <<Row(pkey, nick, service, parameter)>>
               \o SelectSeq(t, LAMBDA r : r.pkey > pkey),
     error |-> "none"]

\* INSERT INTO table VALUES (...) on a table whose PRIMARY KEY is pkey: the row
\* is refused when its pkey is present, and otherwise stored at its rowid place.
add_new_notify(t, pkey, nick, service, parameter) ==
    IF pkey \in Pkeys(t)
    THEN [table |-> t, error |-> "IntegrityError"]
    ELSE [table |-> SelectSeq(t, LAMBDA r : r.pkey < pkey)
                    \o <<Row(pkey, nick, service, parameter)>>
                    \o SelectSeq(t, LAMBDA r : r.pkey > pkey),
          error |-> "none"]

\* the select of remove_notification without its "AND parameter=.."
SelectTriple_any_parameter(t, nick, service, parameter) ==
    SelectSeq(t, LAMBDA r : r.nick = nick /\ r.service = service)

\* SELECT * FROM table WHERE nick=.. AND service=.. AND parameter=..
SelectTriple(t, nick, service, parameter) ==
    SelectSeq(t, LAMBDA r : r.nick = nick /\ r.service = service
                            /\ r.parameter = parameter)

\* SELECT * FROM table WHERE nick=..
SelectNick(t, nick) == SelectSeq(t, LAMBDA r : r.nick = nick)

\* the delete loop of remove_notification leaving after its first row
DeleteFirstRow(t, rows) ==
    IF rows = <<>> THEN t ELSE SelectSeq(t, LAMBDA r : r.pkey # rows[1].pkey)

\* the delete loop of remove_notification deleting by nick instead of by pkey
DeleteRows_by_nick(t, rows) ==
    SelectSeq(t, LAMBDA r : \A i \in 1..Len(rows) : r.nick # rows[i].nick)

\* DELETE FROM table WHERE pkey=.., once for every row of rows
DeleteRows(t, rows) == SelectSeq(t, LAMBDA r : r.pkey \notin Pkeys(rows))

\* notifydb.keys(key='nick'): the nick column, one entry per row
NickColumn(t) == [i \in 1..Len(t) |-> t[i].nick]

-----------------------------------------------------------------------------
(* The notification functions *)

\* the keys of SERVICES
SERVICES == {"pushover", "email"}

\* notify_pushover(bot, row, message): the ways a call can end. The test
\* "if pushover:" reads the module name, not the PUSHOVER flag: with the import
\* failed the name is unbound (NameError); with the import done the branch is
\* always taken, and a client that setup never initialised is refused by the
\* library (InitError) or by the service (RequestError).
notify_pushover ==
    IF ~pushover_imported THEN {"NameError"}
    ELSE IF ~PUSHOVER THEN {"InitError", "RequestError"}
    ELSE {"ok", "RequestError"}

\* notify_email(bot, row, message): SMTP.sendmail on the session setup made
notify_email ==
    IF SMTP = "connected" THEN {"ok", "SMTPException"}
    ELSE {"SMTPServerDisconnected"}

\* func(bot, row, message) for func = SERVICES[row.service]
Outcomes(row) ==
    IF row.service = "pushover" THEN notify_pushover ELSE notify_email

\* the errors raised before anything was sent to the external service
RaisedBeforeSending == {"NameError", "InitError", "SMTPServerDisconnected"}

RECURSIVE Concat(_)
Concat(ss) == IF ss = <<>> THEN <<>> ELSE Head(ss) \o Concat(Tail(ss))

\* nick_detect calling a function for every row of a matching nick, without
\* the lookup in SERVICES
Dispatches_every_row(t, message) ==
    Concat([i \in 1..Len(t) |->
        IF Matches(NickColumn(t)[i], message)
        THEN SelectNick(t, NickColumn(t)[i])
        ELSE <<>>])

\* The calls nick_detect makes for one message when none of them raises: for
\* every entry of the nick column that the message contains, the rows of that
\* nick whose service is a key of SERVICES.
Dispatches(t, message) ==
    Concat([i \in 1..Len(t) |->
        IF Matches(NickColumn(t)[i], message)
        THEN SelectSeq(SelectNick(t, NickColumn(t)[i]),
                       LAMBDA r : r.service \in SERVICES)
        ELSE <<>>])

-----------------------------------------------------------------------------
(* What a handler leaves behind *)

Line(r) == <<r.pkey, r.nick, r.service, r.parameter>>

\* op: the handler; admitted: it got past its sender and admin tests; replies:
\* its bot.reply / bot.say lines; called: the pkeys of the rows whose
\* notification function it called, in order; error: the exception that left
\* the handler; pkey: the pkey it handed to the insert.
Out(op, admitted, replies, called, error, pkey) ==
    [op |-> op, admitted |-> admitted, replies |-> replies, called |-> called,
     error |-> error, pkey |-> pkey]

NoOut == Out("none", FALSE, <<>>, <<>>, "none", 0)

Refused(op) == Out(op, FALSE, <<>>, <<>>, "none", 0)

NoRow == Row(0, <<>>, "", "")

\* op: the command whose statements are not committed yet; args, pkey: its
\* arguments and the pkey of its insert; view: the table as its connection
\* sees it; rows: the selected rows it has still to delete.
Txn(op, args, pkey, view, rows) ==
    [op |-> op, args |-> args, pkey |-> pkey, view |-> view, rows |-> rows]

NoTxn == Txn("none", <<<<>>, "", "">>, 0, <<>>, <<>>)

TypeOK ==
    /\ Len(table) <= MaxRows
    /\ \A i \in 1..Len(table) : table[i].pkey \in 1..MaxId

Init ==
    /\ table = <<>>
    /\ pushover_imported \in BOOLEAN
    /\ PUSHOVER \in BOOLEAN
    /\ PUSHOVER => pushover_imported
    /\ SMTP \in {"connected", "unconnected"}
    /\ out = NoOut
    /\ assigned = {}
    /\ pc = [p \in Procs |-> "idle"]
    /\ pending = [p \in Procs |-> NoRow]
    /\ txn = NoTxn

Config == <<pushover_imported, PUSHOVER, SMTP>>

-----------------------------------------------------------------------------
(* The admin commands, each run to its end *)

add_notification(sender, admin, nick, service, parameter) ==
    /\ UNCHANGED <<Config, pc, pending, txn>>
    /\ IF StartsWithHash(sender) \/ ~admin
       THEN /\ out' = Refused("add_notification")
            /\ UNCHANGED <<table, assigned>>
       ELSE /\ Len(table) < MaxRows
            /\ get_new_pkey(table) <= MaxId
            /\ LET pkey == get_new_pkey(table)
                   r == add_new_notify(table, pkey, nick, service, parameter)
               IN  /\ table' = r.table
                   /\ assigned' = assigned \cup {pkey}
                   /\ out' = Out("add_notification", TRUE,
                                 IF r.error = "none"
                                 THEN <<<<"notify", nick, service, parameter>>>>
                                 ELSE <<>>,
                                 <<>>, r.error, pkey)

remove_notification(sender, admin, nick, service, parameter) ==
    /\ UNCHANGED <<Config, assigned, pc, pending, txn>>
    /\ IF StartsWithHash(sender) \/ ~admin
       THEN /\ out' = Refused("remove_notification")
            /\ UNCHANGED table
       ELSE LET rows == SelectTriple(table, nick, service, parameter)
            IN  /\ table' = DeleteRows(table, rows)
                /\ out' = Out("remove_notification", TRUE,
                              [i \in 1..Len(rows) |-> <<"Removing">> \o Line(rows[i])],
                              <<>>, "none", 0)

list_notifications(sender, admin) ==
    /\ UNCHANGED <<Config, table, assigned, pc, pending, txn>>
    /\ IF StartsWithHash(sender) \/ ~admin
       THEN out' = Refused("list_notifications")
       ELSE out' = Out("list_notifications", TRUE,
                       [i \in 1..Len(table) |-> <<"say">> \o Line(table[i])],
                       <<>>, "none", 0)

-----------------------------------------------------------------------------
(* The listener *)

\* The calls are made in order until one raises; nothing catches the
\* exception, so it ends the handler.
Deliver(calls, keys) ==
    \E k \in 0..Len(calls) :
      /\ \A i \in 1..k : "ok" \in Outcomes(calls[i])
      /\ IF k = Len(calls)
         THEN out' = Out("nick_detect", TRUE, <<>>, keys, "none", 0)
         ELSE \E e \in Outcomes(calls[k + 1]) \ {"ok"} :
                out' = Out("nick_detect", TRUE, <<>>, SubSeq(keys, 1, k + 1), e, 0)

RowKeys(rows) == [i \in 1..Len(rows) |-> rows[i].pkey]

\* nick_detect deleting the rows it has notified
nick_detect_dropping(message) ==
    /\ UNCHANGED <<Config, assigned, pc, pending, txn>>
    /\ table' = DeleteRows(table, Dispatches(table, message))
    /\ Deliver(Dispatches(table, message), RowKeys(Dispatches(table, message)))

nick_detect(message) ==
    /\ UNCHANGED <<Config, table, assigned, pc, pending, txn>>
    /\ Deliver(Dispatches(table, message), RowKeys(Dispatches(table, message)))

-----------------------------------------------------------------------------
(* Concurrent add requests: get_new_pkey reads the table, and the insert    *)
(* happens later, with other requests in between.                           *)

AddBegin(p, sender, admin, nick, service, parameter) ==
    /\ pc[p] = "idle"
    /\ UNCHANGED <<Config, table, txn>>
    /\ IF StartsWithHash(sender) \/ ~admin
       THEN /\ out' = Refused("add_notification")
            /\ UNCHANGED <<assigned, pc, pending>>
       ELSE /\ Len(table) < MaxRows
            /\ get_new_pkey(table) <= MaxId
            /\ pending' = [pending EXCEPT
                             ![p] = Row(get_new_pkey(table), nick, service, parameter)]
            /\ pc' = [pc EXCEPT ![p] = "insert"]
            /\ assigned' = assigned \cup {get_new_pkey(table)}
            /\ UNCHANGED out

AddInsert(p) ==
    /\ pc[p] = "insert"
    /\ Len(table) < MaxRows
    /\ UNCHANGED <<Config, assigned, txn>>
    /\ LET row == pending[p]
           r == add_new_notify(table, row.pkey, row.nick, row.service, row.parameter)
       IN  /\ table' = r.table
           /\ out' = Out("add_notification", TRUE,
                         IF r.error = "none"
                         THEN <<<<"notify", row.nick, row.service, row.parameter>>>>
                         ELSE <<>>,
                         <<>>, r.error, row.pkey)
    /\ pc' = [pc EXCEPT ![p] = "idle"]
    /\ pending' = [pending EXCEPT ![p] = NoRow]

-----------------------------------------------------------------------------
(* The add and remove commands statement by statement, and a crash. What    *)
(* connect.execute changes is seen by the connection alone until            *)
(* connect.commit(); a crash loses what was not committed.                  *)

\* connect.execute(INSERT / DELETE) with commit after every statement
Execute_autocommit(durable, view) == view

\* connect.execute(INSERT / DELETE): the table as stored, after the statement
Execute(durable, view) == durable

\* connect.commit(): the table as stored, after it
Commit(durable, view) == view

\* add_notification up to connect.execute(INSERT ...)
AddExecute(sender, admin, nick, service, parameter) ==
    /\ txn.op = "none"
    /\ UNCHANGED <<Config, pc, pending>>
    /\ IF StartsWithHash(sender) \/ ~admin
       THEN /\ out' = Refused("add_notification")
            /\ UNCHANGED <<table, assigned, txn>>
       ELSE /\ Len(table) < MaxRows
            /\ get_new_pkey(table) <= MaxId
            /\ LET pkey == get_new_pkey(table)
                   r == add_new_notify(table, pkey, nick, service, parameter)
               IN  /\ assigned' = assigned \cup {pkey}
                   /\ table' = Execute(table, r.table)
                   /\ IF r.error = "none"
                      THEN /\ txn' = Txn("add", <<nick, service, parameter>>, pkey,
                                         r.table, <<>>)
                           /\ out' = Out("add_notification", TRUE, <<>>, <<>>,
                                         "none", pkey)
                      ELSE /\ txn' = NoTxn
                           /\ out' = Out("add_notification", TRUE, <<>>, <<>>,
                                         r.error, pkey)

\* connect.commit() of add_new_notify, and the reply
AddCommit ==
    /\ txn.op = "add"
    /\ UNCHANGED <<Config, assigned, pc, pending>>
    /\ table' = Commit(table, txn.view)
    /\ out' = [out EXCEPT !.replies = <<<<"notify">> \o txn.args>>]
    /\ txn' = NoTxn

\* remove_notification up to its SELECT
RemoveSelect(sender, admin, nick, service, parameter) ==
    /\ txn.op = "none"
    /\ UNCHANGED <<Config, table, assigned, pc, pending>>
    /\ IF StartsWithHash(sender) \/ ~admin
       THEN /\ out' = Refused("remove_notification")
            /\ UNCHANGED txn
       ELSE /\ txn' = Txn("remove", <<nick, service, parameter>>, 0, table,
                          SelectTriple(table, nick, service, parameter))
            /\ out' = Out("remove_notification", TRUE, <<>>, <<>>, "none", 0)

\* one turn of the loop of remove_notification: the reply and the DELETE
RemoveDelete ==
    /\ txn.op = "remove"
    /\ txn.rows # <<>>
    /\ UNCHANGED <<Config, assigned, pc, pending>>
    /\ out' = [out EXCEPT !.replies = Append(@, <<"Removing">> \o Line(Head(txn.rows)))]
    /\ txn' = [txn EXCEPT !.view = DeleteRows(@, <<Head(txn.rows)>>),
                          !.rows = Tail(@)]
    /\ table' = Execute(table, DeleteRows(txn.view, <<Head(txn.rows)>>))

\* connect.commit() of remove_notification
RemoveCommit ==
    /\ txn.op = "remove"
    /\ txn.rows = <<>>
    /\ UNCHANGED <<Config, out, assigned, pc, pending>>
    /\ table' = Commit(table, txn.view)
    /\ txn' = NoTxn

\* the process dies and is started again: the stored table is what is left
Crash ==
    /\ UNCHANGED <<Config, table, assigned, pc, pending>>
    /\ out' = [out EXCEPT !.op = "crash"]
    /\ txn' = NoTxn

-----------------------------------------------------------------------------
(* Specifications *)

Add ==
    \E t \in Triggers :
        add_notification(t.sender, t.admin, t.args[1], t.args[2], t.args[3])

Remove ==
    \E t \in Triggers :
        remove_notification(t.sender, t.admin, t.args[1], t.args[2], t.args[3])

List ==
    \E sender \in Senders, admin \in BOOLEAN : list_notifications(sender, admin)

Detect == \E message \in Messages : nick_detect(message)

Next == Add \/ Remove \/ List \/ Detect

\* the handlers run one after another
Spec == Init /\ [][Next]_vars

\* add requests only, one after another
SpecAdds == Init /\ [][Add]_vars

ConcBegin ==
    \E p \in Procs, t \in ConcTriggers :
        AddBegin(p, t.sender, t.admin, t.args[1], t.args[2], t.args[3])

ConcInsert == \E p \in Procs : AddInsert(p)

ConcRemove ==
    \E t \in ConcTriggers :
        remove_notification(t.sender, t.admin, t.args[1], t.args[2], t.args[3])

NextConc == ConcBegin \/ ConcInsert \/ ConcRemove

\* add requests whose read and insert interleave, and removes
SpecConc == Init /\ [][NextConc]_vars

StepAdd ==
    \E t \in Triggers :
        AddExecute(t.sender, t.admin, t.args[1], t.args[2], t.args[3])

StepRemove ==
    \E t \in Triggers :
        RemoveSelect(t.sender, t.admin, t.args[1], t.args[2], t.args[3])

NextCrash ==
    StepAdd \/ AddCommit \/ StepRemove \/ RemoveDelete \/ RemoveCommit \/ Crash

\* the commands statement by statement, with a crash at any point
SpecCrash == Init /\ [][NextCrash]_vars

-----------------------------------------------------------------------------
(* Properties *)

\* an admin's command in a private message: it gets past the two tests
Pm == <<"n">>

HasTriple(t, nick, service, parameter) ==
    \E i \in 1..Len(t) :
        t[i].nick = nick /\ t[i].service = service /\ t[i].parameter = parameter

Range(seq) == {seq[i] : i \in 1..Len(seq)}

Count(seq, x) == Cardinality({i \in 1..Len(seq) : seq[i] = x})

RowOf(t, pkey) == t[CHOOSE i \in 1..Len(t) : t[i].pkey = pkey]

\* call i of a nick_detect run reached the external service
Attempted(o, i) ==
    i <= Len(o.called) /\ ~(i = Len(o.called) /\ o.error \in RaisedBeforeSending)

\* call i of a nick_detect run raised
Raised(o, i) == i = Len(o.called) /\ o.error # "none"

\* setup found no configuration for the service's capability
Unconfigured(service) ==
    \/ service = "pushover" /\ ~PUSHOVER
    \/ service = "email" /\ SMTP = "unconnected"

\* C1 (the case it names): with two rows of one nick in the table, one of a
\* known service and one of an unknown service, a message that contains the
\* nick makes nick_detect call a notification function exactly once.
C1_OneCallForKnownAndUnknown ==
    [][\A m \in Messages :
         (/\ nick_detect(m)
          /\ Len(table) = 2
          /\ table[1].nick = table[2].nick
          /\ \E i, j \in 1..2 : /\ table[i].service \in SERVICES
                                /\ table[j].service \notin SERVICES
          /\ Matches(table[1].nick, m))
         => Len(out'.called) = 1]_vars

\* C2: a notification function that raises stops nothing: every row whose nick
\* the message contains and whose service is known is still called, and the
\* error does not leave nick_detect.
C2_FailureIsolated ==
    [][\A m \in Messages :
         nick_detect(m) =>
           /\ out'.error = "none"
           /\ \A i \in 1..Len(table) :
                (Matches(table[i].nick, m) /\ table[i].service \in SERVICES)
                  => table[i].pkey \in Range(out'.called)]_vars

\* C3: in a run of add commands alone, the pkey an add hands to its insert is
\* none of the pkeys handed out before and larger than each of them.
C3_AddsIncrease ==
    [][\A s \in Subscriptions :
         (out'.pkey # 0 /\ add_notification(Pm, TRUE, s[1], s[2], s[3])) =>
           /\ out'.pkey \notin assigned
           /\ \A a \in assigned : out'.pkey > a]_vars

\* two adds have run, and the second got the larger pkey
C3_Witness ==
    /\ out.op = "add_notification" /\ out.admitted /\ out.error = "none"
    /\ out.pkey = 2
    /\ assigned = {1, 2}
    /\ Len(table) = 2

\* C4: over adds and removes, no add is handed a pkey that an earlier add was
\* handed, whether or not that row is still in the table.
C4_NeverReused ==
    [][\A s \in Subscriptions :
         (out'.pkey # 0 /\ add_notification(Pm, TRUE, s[1], s[2], s[3])) =>
           out'.pkey \notin assigned]_vars

\* C5: whatever the interleaving of the reads and inserts of concurrent adds,
\* no two rows of the table have the same pkey.
C5_NoTwoRowsShareAPkey ==
    \A i, j \in 1..Len(table) : i # j => table[i].pkey # table[j].pkey

\* two adds read the same largest pkey, and the second insert was refused
C5_Witness ==
    /\ out.op = "add_notification" /\ out.error = "IntegrityError"
    /\ out.pkey \in Pkeys(table)

\* C6: a row whose service has no configuration is a silent no-op for
\* nick_detect: nothing is sent to the service and nothing is raised.
C6_UnconfiguredIsSilent ==
    [][\A m \in Messages :
         nick_detect(m) =>
           \A i \in 1..Len(out'.called) :
             Unconfigured(RowOf(table, out'.called[i]).service)
               => ~Attempted(out', i) /\ ~Raised(out', i)]_vars

\* C7: a nick of the table (with a row of a known service, so that its
\* dispatch shows) has one of its rows called exactly when the lowercased
\* message contains the lowercased nick.
C7_DispatchIffContained ==
    [][\A m \in Messages :
         nick_detect(m) =>
           \A i \in 1..Len(table) :
             table[i].service \in SERVICES =>
               ((\E j \in 1..Len(table) :
                    /\ table[j].nick = table[i].nick
                    /\ table[j].pkey \in Range(out'.called))
                <=> Contains(Lower(m), Lower(table[i].nick)))]_vars

\* C8: after an admitted remove of (nick, service, parameter) no row of the
\* table has these three fields, so neither the listing nor the rows of the
\* nick hold one.
C8_RemoveLeavesNone ==
    [][\A s \in Subscriptions :
         (out'.op = "remove_notification"
          /\ remove_notification(Pm, TRUE, s[1], s[2], s[3])) =>
           /\ ~HasTriple(table', s[1], s[2], s[3])
           /\ ~HasTriple(SelectNick(table', s[1]), s[1], s[2], s[3])]_vars

\* a remove has just deleted two rows with the same three fields
C8_Witness ==
    /\ out.op = "remove_notification" /\ out.admitted
    /\ Len(out.replies) = 2
    /\ SubSeq(out.replies[1], 3, 5) = SubSeq(out.replies[2], 3, 5)

C10_AddStoresOne ==
    [][\A s \in Subscriptions :
         (/\ out'.op = "add_notification"
          /\ ~HasTriple(table, s[1], s[2], s[3])
          /\ add_notification(Pm, TRUE, s[1], s[2], s[3])) =>
           /\ Cardinality({i \in 1..Len(table') :
                 /\ table'[i].nick = s[1]
                 /\ table'[i].service = s[2]
                 /\ table'[i].parameter = s[3]}) = 1
           /\ \A i \in 1..Len(table') :
                (/\ table'[i].nick = s[1]
                 /\ table'[i].service = s[2]
                 /\ table'[i].parameter = s[3])
                => table'[i].pkey >= 1 /\ table'[i].pkey \notin Pkeys(table)
           /\ \A i \in 1..Len(table) : \E j \in 1..Len(table') : table'[j] = table[i]
           /\ Len(table') = Len(table) + 1]_vars

\* an add went through on a table that held another row
C10_Witness ==
    /\ out.op = "add_notification" /\ out.admitted /\ out.error = "none"
    /\ Len(table) = 2
    /\ <<table[1].nick, table[1].service, table[1].parameter>>
         # <<table[2].nick, table[2].service, table[2].parameter>>

\* C11: an admitted add with a service that is no key of SERVICES stores the
\* row, and afterwards no nick_detect run, whatever the message, calls a
\* notification function for a row of such a service (so none raises for it).
C11_UnknownServiceStoredAndInert ==
    [][/\ \A s \in Subscriptions :
            (/\ out'.op = "add_notification"
             /\ s[2] \notin SERVICES
             /\ add_notification(Pm, TRUE, s[1], s[2], s[3])) =>
              /\ out'.error = "none"
              /\ \E i \in 1..Len(table') :
                   /\ table'[i].pkey \notin Pkeys(table)
                   /\ <<table'[i].nick, table'[i].service, table'[i].parameter>> = s
       /\ (out'.op = "nick_detect") =>
              \A i \in 1..Len(out'.called) :
                RowOf(table', out'.called[i]).service \in SERVICES]_vars

\* a message that contains the nick of a row of an unknown service was handled:
\* the other row of that nick was called, the row itself was not
C11_Witness ==
    /\ out.op = "nick_detect" /\ out.error = "none"
    /\ Len(table) = 2
    /\ table[1].nick = table[2].nick
    /\ table[1].service \notin SERVICES
    /\ table[2].service \in SERVICES
    /\ table[2].pkey \in Range(out.called)
    /\ table[1].pkey \notin Range(out.called)

\* C12: the pkey an admitted add hands to its insert is 1 on an empty table and
\* otherwise the largest pkey of the rows in the table plus 1.
C12_NextIsMaxPlusOne ==
    [][\A s \in Subscriptions :
         (out'.pkey # 0 /\ add_notification(Pm, TRUE, s[1], s[2], s[3])) =>
           IF table = <<>>
           THEN out'.pkey = 1
           ELSE /\ out'.pkey - 1 \in Pkeys(table)
                /\ \A k \in Pkeys(table) : k <= out'.pkey - 1]_vars

\* an add on a table emptied by removes got pkey 1, after pkey 2 had been used
C12_Witness ==
    /\ out.op = "add_notification" /\ out.admitted /\ out.error = "none"
    /\ out.pkey = 1
    /\ 2 \in assigned
    /\ Pkeys(table) = {1}

\* the table t without the rows that have the three fields of args
Without(t, args) ==
    SelectSeq(t, LAMBDA r : <<r.nick, r.service, r.parameter>> # args)

\* C13: the stored table changes only by whole commands, crash or no crash: a
\* step of an add leaves it as it was or with exactly the new row added, a step
\* of a remove leaves it as it was or without every row of the three fields,
\* any other step leaves it as it was; and a command that returns has stored
\* its whole effect.
C13_WholeCommandsOnly ==
    [][/\ txn.op = "none" => table' = table
       /\ txn.op = "add" =>
            \/ table' = table
            \/ /\ Len(table') = Len(table) + 1
               /\ \A i \in 1..Len(table) : table[i] \in Range(table')
               /\ Row(txn.pkey, txn.args[1], txn.args[2], txn.args[3]) \in Range(table')
       /\ txn.op = "remove" =>
            \/ table' = table
            \/ table' = Without(table, txn.args)
       /\ (txn.op = "add" /\ txn'.op = "none" /\ out'.op # "crash") =>
            Row(txn.pkey, txn.args[1], txn.args[2], txn.args[3]) \in Range(table')
       /\ (txn.op = "remove" /\ txn'.op = "none" /\ out'.op # "crash") =>
            table' = Without(table, txn.args)]_vars

\* a crash in the loop of a remove, after the first of two rows was deleted and
\* reported: both rows are still stored
C13_Witness ==
    /\ out.op = "crash"
    /\ Len(out.replies) = 1
    /\ out.replies[1][1] = "Removing"
    /\ Len(table) = 2
    /\ Line(table[1]) = SubSeq(out.replies[1], 2, 5)
    /\ <<table[1].nick, table[1].service, table[1].parameter>>
         = <<table[2].nick, table[2].service, table[2].parameter>>

\* C14: in every interleaving of two concurrent adds, no insert meets a pkey
\* that is already in the table: each insert goes through and its row is stored.
C14_NoCollision ==
    [][\A p \in Procs :
         (pc[p] = "insert" /\ AddInsert(p)) =>
           /\ out'.error = "none"
           /\ pending[p] \in Range(table')]_vars

\* the rows of t that have the three fields of args
Matching(t, args) ==
    {t[i] : i \in {j \in 1..Len(t) :
                     <<t[j].nick, t[j].service, t[j].parameter>> = args}}

C16_ReadersLeaveTheTable ==
    [][(out'.op \in {"nick_detect", "list_notifications"}) => table' = table]_vars

\* nick_detect has just run on a table with rows: it made two calls, the first
\* went through and the second raised
C16_Witness ==
    /\ out.op = "nick_detect"
    /\ Len(out.called) = 2
    /\ out.error # "none"
    /\ Len(table) = 2

\* C17: an add, remove or list request sent from a channel, or by someone who
\* is not an admin, leaves the table as it was and replies nothing.
C17_RefusedRequestsDoNothing ==
    [][\A t \in Triggers :
         (/\ out'.op \in {"add_notification", "remove_notification",
                          "list_notifications"}
          /\ (Head(t.sender) = "#" \/ ~t.admin)
          /\ \/ add_notification(t.sender, t.admin, t.args[1], t.args[2], t.args[3])
             \/ remove_notification(t.sender, t.admin, t.args[1], t.args[2], t.args[3])
             \/ list_notifications(t.sender, t.admin)) =>
           /\ table' = table
           /\ out'.replies = <<>>]_vars

\* a remove of three fields that a row has was refused, and the row is there
C17_Witness ==
    /\ out.op = "remove_notification" /\ ~out.admitted
    /\ out.replies = <<>>
    /\ HasTriple(table, <<"b">>, "email", "tok1")

====
